---- MODULE Spec2Model ----
(***************************************************************************)
(* Model of the Nike search robot (src/main.py): the tenacity retry policy *)
(* around safe_click, banner dismissal, search-input resolution, product   *)
(* card resolution, title/price extraction and the run orchestrator.       *)
(* The browser (Playwright) is the environment: every call into it either  *)
(* returns or raises, chosen nondeterministically.                         *)
(***************************************************************************)
EXTENDS Integers, Sequences, FiniteSets, TLC

\* -------------------------------------------------------------- constants
\* stop_after_attempt(3)
MaxAttempts == 3
\* min(count, 24) in _first_product_card
ScanCap == 24
\* wait_exponential(multiplier=0.5, min=0.5, max=4), in milliseconds
WaitMultiplierMs == 500
WaitMinMs == 500
WaitMaxMs == 4000

\* ----------------------------------------------------------------- bounds
\* most banner buttons a freshly loaded page shows
MaxBanners == 1
\* longest element text the browser returns, in characters
MaxLen == 2
\* most nodes a selector matches on the results page
MaxNodes == 25

\* ------------------------------------------------------------ vocabulary
\* the button texts _dismiss_banners sweeps, in order
candidates ==
  << "Accept", "Accept All", "I Accept", "I Agree",
     "Got it", "Allow all", "OK", "Close" >>

Labels == 1..Len(candidates)

\* search_locators of _open_search, in order
search_locators ==
  << "role=searchbox", "placeholder~search",
     "input[type='search']", "input[aria-label*='Search' i]" >>

Strategies == 1..Len(search_locators)

\* selectors of _first_product_card, in order; scan 0 is the fast path over
\* [data-testid='product-card']
selectors ==
  << "[data-testid='product-card']", "article [data-testid='product-card']",
     "li [data-testid='product-card']", "article, li, div" >>

\* title_candidates of _extract_title_and_price, in order
title_candidates ==
  << "[data-testid='product-card__title']", "a[aria-label]:visible",
     "h3:visible, h2:visible, h1:visible", "a:visible" >>

TitleCandidates == 1..Len(title_candidates)

\* -------------------------------------------------------------- exceptions
NoErr == [kind |-> "none", msg |-> ""]

\* playwright.sync_api.TimeoutError
PWTimeout == [kind |-> "PWTimeout", msg |-> "Timeout 10000ms exceeded"]

\* any other Exception a Playwright call raises (playwright Error)
PWError == [kind |-> "Error", msg |-> "Target closed"]

\* what a blocking Playwright call (goto, wait_for, click, fill, ...) raises
BlockingErrors == {PWTimeout, PWError}

\* what a non-waiting Playwright call (count) raises
ProbeErrors == {PWError}

RecoverableError(m) == [kind |-> "RecoverableError", msg |-> m]

RuntimeError(m) == [kind |-> "RuntimeError", msg |-> m]

NoSearchInput == RuntimeError("Could not find Nike search input.")

NoProductCard ==
  RuntimeError("Could not find a product card with a visible price (Nike).")

NoPrice ==
  RuntimeError("Found a product card but no [data-testid='product-price'].")

\* ------------------------------------------------------------------- text
Chars == {" ", "a"}

RECURSIVE SeqsUpTo(_)
SeqsUpTo(n) ==
  IF n = 0 THEN {<<>>}
  ELSE LET S == SeqsUpTo(n - 1)
       IN  S \cup {Append(s, c) : s \in {t \in S : Len(t) = n - 1}, c \in Chars}

\* the texts inner_text() may return
Texts == SeqsUpTo(MaxLen)

RECURSIVE LStrip(_)
LStrip(s) == IF s # <<>> /\ Head(s) = " " THEN LStrip(Tail(s)) ELSE s

RECURSIVE RStrip(_)
RStrip(s) ==
  IF s # <<>> /\ s[Len(s)] = " " THEN RStrip(SubSeq(s, 1, Len(s) - 1)) ELSE s

\* str.strip()
Strip(s) == RStrip(LStrip(s))

\* the literals of _extract_title_and_price, as one-token texts
UnknownTitle == << "(unknown title)" >>

PriceInBag == << "Price in Bag" >>

\* title_text before any candidate yields (None)
None == << "None" >>

Min(a, b) == IF a < b THEN a ELSE b

Max(a, b) == IF a > b THEN a ELSE b

RECURSIVE Pow2(_)
Pow2(n) == IF n = 0 THEN 1 ELSE 2 * Pow2(n - 1)

\* ------------------------------------------------------------------- state
VARIABLES
  pc,            \* position of the run
  query,         \* argument of run
  browserOpen,   \* the browser launched and not closed
  contextOpen,   \* the browser context created and not closed
  present,       \* page: labels of the vocabulary that a button matches
  lbl,           \* _dismiss_banners: index of the label being probed
  dismissCalls,  \* completed calls of _dismiss_banners
  caller,        \* who called safe_click: "banner" or "search"
  attempt,       \* tenacity statistics: attempt_number of the last call
  fails,         \* attempts of the last call that raised
  logMark,       \* length of log when the last call started
  slept,         \* tenacity: the delays slept in the last call (ms)
  clickErr,      \* safe_click: the exception `e` its last failed attempt caught
  lastErr,       \* the exception the last failed attempt of the call raised
  clickStatus,   \* outcome of the last safe_click call
  log,           \* events written to logger "robot"
  exc,           \* the exception propagating, NoErr if none
  search,        \* page: what each search strategy's probe produces
  strat,         \* _open_search: index of the strategy being tried
  searchInput,   \* run: strategy whose locator is the search input, 0 if none
  scan,          \* _first_product_card: 0 fast path, 1..4 selector scanned
  limit,         \* _first_product_card: limit of the current scan
  idx,           \* _first_product_card: i of the current scan
  probes,        \* _first_product_card: candidate nodes probed in this call
  skippedPriced, \* _first_product_card: a candidate with a price was passed by
  card,          \* run: the container returned by _first_product_card, found
                 \* at index idx of scan `scan`
  cont,          \* page: the container as _extract_title_and_price finds it
  tc,            \* _extract_title_and_price: index of the title candidate
  title_text,    \* _extract_title_and_price: title_text
  firstYield,    \* first title text read whose strip() is non-empty
  result,        \* the (title, price) returned by _extract_title_and_price
  printed,       \* lines printed by run
  ret,           \* value returned by run
  caught,        \* run: the exception its except clause bound (te or e)
  exitCode       \* process exit code, -1 while running

vars ==
  << pc, query, browserOpen, contextOpen, present, lbl, dismissCalls, caller,
     attempt, fails, logMark, slept, clickErr, lastErr, clickStatus, log, exc,
     search, strat,
     searchInput, scan, limit, idx, probes, skippedPriced, card, cont, tc,
     title_text, firstYield, result, printed, ret, caught, exitCode >>

\* groups of variables, for UNCHANGED
sessionVars == << browserOpen, contextOpen >>

clickVars ==
  << caller, attempt, fails, logMark, slept, clickErr, lastErr, clickStatus >>

bannerVars == << present, lbl, dismissCalls >>

searchVars == << search, strat, searchInput >>

cardVars == << scan, limit, idx, probes, skippedPriced, card >>

extractVars == << cont, tc, title_text, firstYield, result >>

outVars == << printed, ret, caught, exitCode >>

Queries == {"Men's Pegasus"}

NoSearch == [s \in Strategies |-> "unprobed"]

NoCard == [resolved |-> FALSE, price |-> FALSE]

NoMsg == <<>>

NoCont == [priceElem |-> FALSE, marker |-> FALSE, known |-> FALSE]

NoResult == [title |-> None, price |-> None]

\* pages a navigation may load: at most MaxBanners banner buttons
BannerPages == {S \in SUBSET Labels : Cardinality(S) <= MaxBanners}

Init ==
  /\ pc = "launch"
  /\ query \in Queries
  /\ browserOpen = FALSE
  /\ contextOpen = FALSE
  /\ present = {}
  /\ lbl = 0
  /\ dismissCalls = 0
  /\ caller = "none"
  /\ attempt = 0
  /\ fails = 0
  /\ logMark = 0
  /\ slept = <<>>
  /\ clickErr = NoErr
  /\ lastErr = NoErr
  /\ clickStatus = "none"
  /\ log = <<>>
  /\ exc = NoErr
  /\ search = NoSearch
  /\ strat = 0
  /\ searchInput = 0
  /\ scan = 0
  /\ limit = 0
  /\ idx = 0
  /\ probes = 0
  /\ skippedPriced = FALSE
  /\ card = NoCard
  /\ cont = NoCont
  /\ tc = 0
  /\ title_text = None
  /\ firstYield = None
  /\ result = NoResult
  /\ printed = <<>>
  /\ ret = NoMsg
  /\ caught = NoErr
  /\ exitCode = -1

\* ------------------------------------------------------------ exceptions
\* `except Exception` catches every exception the browser or the code raises
IsException(e) ==
  e.kind \in {"PWTimeout", "Error", "RecoverableError", "RuntimeError"}

IsPWTimeoutNever(e) == FALSE

\* `except PWTimeout as te`
IsPWTimeout(e) == e.kind = "PWTimeout"

\* an exception leaves the current function into the try block of run
Raise(e) == /\ exc' = e
            /\ pc' = "except"

\* ------------------------------------------------------- session start-up
\* p.chromium.launch(...)
Launch ==
  /\ pc = "launch"
  /\ \/ /\ browserOpen' = TRUE
        /\ pc' = "new_context"
        /\ exc' = exc
     \/ \E e \in BlockingErrors :
          /\ exc' = e
          /\ pc' = "with_exit"
          /\ browserOpen' = browserOpen
  /\ UNCHANGED << query, contextOpen, bannerVars, clickVars, log, searchVars,
                  cardVars, extractVars, outVars >>

\* browser.new_context(...)
NewContext ==
  /\ pc = "new_context"
  /\ \/ /\ contextOpen' = TRUE
        /\ pc' = "new_page"
        /\ exc' = exc
     \/ \E e \in BlockingErrors :
          /\ exc' = e
          /\ pc' = "with_exit"
          /\ contextOpen' = contextOpen
  /\ UNCHANGED << query, browserOpen, bannerVars, clickVars, log, searchVars,
                  cardVars, extractVars, outVars >>

\* context.new_page() and the two set_default_*timeout calls
NewPage ==
  /\ pc = "new_page"
  /\ \/ /\ pc' = "goto"
        /\ exc' = exc
     \/ \E e \in BlockingErrors :
          /\ exc' = e
          /\ pc' = "with_exit"
  /\ UNCHANGED << query, sessionVars, bannerVars, clickVars, log, searchVars,
                  cardVars, extractVars, outVars >>

\* page.goto(settings.base_url): the loaded page shows some banner buttons
Goto ==
  /\ pc = "goto"
  /\ \/ /\ present' \in BannerPages
        /\ lbl' = 1
        /\ pc' = "dismiss_probe"
        /\ exc' = exc
     \/ \E e \in BlockingErrors :
          /\ Raise(e)
          /\ UNCHANGED << present, lbl >>
  /\ UNCHANGED << query, sessionVars, dismissCalls, clickVars, log,
                  searchVars, cardVars, extractVars, outVars >>

\* ------------------------------------------------------------ retry policy
\* retry=retry_if_exception_type(RecoverableError)
RetryIf(e) == e.kind = "RecoverableError"

StopOneLate(n) == n > MaxAttempts

StopNever(n) == FALSE

\* stop=stop_after_attempt(3)
Stop(n) == n >= MaxAttempts

\* wait=wait_exponential(multiplier=0.5, min=0.5, max=4)
WaitExponential(n) ==
  Max(WaitMinMs, Min(WaitMultiplierMs * Pow2(n - 1), WaitMaxMs))

ReraiseWrapped(e) == [kind |-> "RetryError", msg |-> e.msg]

\* reraise=True: the last exception leaves as it is, not inside a RetryError
Reraise(e) == e

\* the retrying wrapper starts a call of safe_click
CallSafeClick(who) ==
  /\ caller' = who
  /\ attempt' = 1
  /\ fails' = 0
  /\ logMark' = Len(log)
  /\ slept' = <<>>
  /\ clickErr' = NoErr
  /\ lastErr' = NoErr
  /\ clickStatus' = "running"
  /\ pc' = "click_attempt"

\* except Exception as e: raise RecoverableError(str(e))
Wrap(e) == RecoverableError(e.msg)

\* one attempt: the body of safe_click. wait_for or click may raise; a click
\* that goes through removes the banner button it clicked.
SafeClickAttempt ==
  /\ pc = "click_attempt"
  /\ \/ /\ clickStatus' = "ok"
        /\ present' = IF caller = "banner" THEN present \ {lbl} ELSE present
        /\ pc' = "click_done"
        /\ UNCHANGED << clickErr, lastErr, fails >>
     \/ \E e \in BlockingErrors :
          /\ clickErr' = e
          /\ fails' = fails + 1
          /\ lastErr' = IF IsException(e) THEN Wrap(e) ELSE e
          /\ pc' = "retry_decide"
          /\ UNCHANGED << clickStatus, present >>
  /\ UNCHANGED << query, sessionVars, lbl, dismissCalls, caller, attempt,
                  logMark, slept, log, exc, searchVars, cardVars,
                  extractVars, outVars >>

\* tenacity after a failed attempt: re-raise (reraise=True) when the error is
\* not retried or the attempts are used up, else sleep and attempt again.
\* No before_sleep / after hook is configured: nothing is logged.
RetryDecide ==
  /\ pc = "retry_decide"
  /\ IF ~RetryIf(lastErr) \/ Stop(attempt)
       THEN /\ clickStatus' = "raised"
            /\ exc' = Reraise(lastErr)
            /\ pc' = "click_done"
            /\ UNCHANGED << attempt, slept >>
       ELSE /\ slept' = Append(slept, WaitExponential(attempt))
            /\ attempt' = attempt + 1
            /\ pc' = "click_attempt"
            /\ UNCHANGED << clickStatus, exc >>
  /\ UNCHANGED << query, sessionVars, bannerVars, caller, fails, logMark,
                  clickErr, lastErr, log, searchVars, cardVars, extractVars,
                  outVars >>

\* --------------------------------------------------------- banner dismissal
DismissCatchesTimeoutOnly(e) == IsPWTimeout(e)

\* `except Exception: pass` of _dismiss_banners
DismissCatches(e) == IsException(e)

\* what follows an exception raised inside the try of the label loop
DismissExcept(e) ==
  IF DismissCatches(e)
    THEN /\ lbl' = lbl + 1
         /\ pc' = "dismiss_probe"
         /\ exc' = NoErr
    ELSE /\ Raise(e)
         /\ lbl' = lbl

\* safe_click is left: its locals are gone, tenacity's statistics stay
LeaveSafeClick ==
  /\ clickErr' = NoErr
  /\ lastErr' = NoErr
  /\ UNCHANGED << caller, attempt, fails, logMark, slept, clickStatus >>

ShouldClickAlways(l) == TRUE

\* if btn.count() > 0:
ShouldClick(l) == l \in present

\* one iteration of the label loop up to the click: get_by_role + count()
DismissProbe ==
  /\ pc = "dismiss_probe"
  /\ lbl \in Labels
  /\ \/ \E e \in ProbeErrors :
          /\ DismissExcept(e)
          /\ UNCHANGED clickVars
     \/ /\ ~ShouldClick(lbl)
        /\ lbl' = lbl + 1
        /\ UNCHANGED << pc, exc, clickVars >>
     \/ /\ ShouldClick(lbl)
        /\ CallSafeClick("banner")
        /\ UNCHANGED << lbl, exc >>
  /\ UNCHANGED << query, sessionVars, present, dismissCalls, log, searchVars,
                  cardVars, extractVars, outVars >>

\* safe_click(btn.first) returned or raised inside the try of the label loop
DismissAfterClick ==
  /\ pc = "click_done"
  /\ caller = "banner"
  /\ IF exc = NoErr
       THEN /\ lbl' = lbl + 1
            /\ pc' = "dismiss_probe"
            /\ exc' = exc
       ELSE DismissExcept(exc)
  /\ LeaveSafeClick
  /\ UNCHANGED << query, sessionVars, present, dismissCalls, log,
                  searchVars, cardVars, extractVars, outVars >>

\* the label loop is over: _dismiss_banners returns into run
DismissReturn ==
  /\ pc = "dismiss_probe"
  /\ lbl = Len(candidates) + 1
  /\ dismissCalls' = dismissCalls + 1
  /\ pc' = "open_search_btn"
  /\ UNCHANGED << query, sessionVars, present, lbl, clickVars, log, exc,
                  searchVars, cardVars, extractVars, outVars >>

\* ------------------------------------------------- search-input resolution
\* the search button block of _open_search: get_by_role + count(), then
\* safe_click(btn.first); `except Exception: pass` swallows what they raise
OpenSearchBtnProbe ==
  /\ pc = "open_search_btn"
  /\ \/ \E e \in ProbeErrors :
          /\ IsException(e)
          /\ pc' = "open_search_locators"
          /\ UNCHANGED clickVars
     \/ /\ pc' = "open_search_locators"
        /\ UNCHANGED clickVars
     \/ CallSafeClick("search")
  /\ UNCHANGED << query, sessionVars, bannerVars, log, exc, searchVars,
                  cardVars, extractVars, outVars >>

\* safe_click(btn.first) returned or raised inside the try of _open_search
OpenSearchAfterClick ==
  /\ pc = "click_done"
  /\ caller = "search"
  /\ IF exc = NoErr \/ IsException(exc)
       THEN /\ pc' = "open_search_locators"
            /\ exc' = NoErr
       ELSE Raise(exc)
  /\ LeaveSafeClick
  /\ UNCHANGED << query, sessionVars, bannerVars, log, searchVars,
                  cardVars, extractVars, outVars >>

\* what the probe of one search strategy produces on the page:
\*   "absent"  count() is 0
\*   "raises"  count() or wait_for raises an error other than a timeout
\*   "hidden"  count() > 0 and wait_for(state="visible") times out
\*   "visible" count() > 0 and wait_for(state="visible") returns
StrategyOutcomes == {"absent", "raises", "hidden", "visible"}

\* search_locators is built; the page as the strategy loop will find it
BuildSearchLocators ==
  /\ pc = "open_search_locators"
  /\ search' \in [Strategies -> StrategyOutcomes]
  /\ strat' = 1
  /\ pc' = "strategy"
  /\ UNCHANGED << query, sessionVars, bannerVars, clickVars, log, exc,
                  searchInput, cardVars, extractVars, outVars >>

ResolvesWithoutWait(o) == o \in {"hidden", "visible"}

\* loc.count() > 0 and loc.first.wait_for(state="visible") returns
Resolves(o) == o = "visible"

\* one iteration of the strategy loop
StrategyStep ==
  /\ pc = "strategy"
  /\ strat \in Strategies
  /\ IF Resolves(search[strat])
       THEN /\ searchInput' = strat
            /\ pc' = "fill"
            /\ strat' = strat
       ELSE /\ strat' = strat + 1
            /\ UNCHANGED << searchInput, pc >>
  /\ UNCHANGED << query, sessionVars, bannerVars, clickVars, log, exc, search,
                  cardVars, extractVars, outVars >>

\* raise RuntimeError("Could not find Nike search input.")
OpenSearchFail ==
  /\ pc = "strategy"
  /\ strat = Len(search_locators) + 1
  /\ Raise(NoSearchInput)
  /\ UNCHANGED << query, sessionVars, bannerVars, clickVars, log, searchVars,
                  cardVars, extractVars, outVars >>

\* ------------------------------------------------------------------ submit
\* search_input.fill(query)
Fill ==
  /\ pc = "fill"
  /\ \/ /\ pc' = "press"
        /\ exc' = exc
     \/ \E e \in BlockingErrors : Raise(e)
  /\ UNCHANGED << query, sessionVars, bannerVars, clickVars, log, searchVars,
                  cardVars, extractVars, outVars >>

\* search_input.press("Enter"): the browser leaves the page for the results
Press ==
  /\ pc = "press"
  /\ \/ /\ pc' = "wait_load"
        /\ present' = {}
        /\ search' = NoSearch
        /\ exc' = exc
     \/ \E e \in BlockingErrors :
          /\ Raise(e)
          /\ UNCHANGED << present, search >>
  /\ UNCHANGED << query, sessionVars, lbl, dismissCalls, clickVars, log,
                  strat, searchInput, cardVars, extractVars, outVars >>

\* page.wait_for_load_state("domcontentloaded")
WaitLoadState ==
  /\ pc = "wait_load"
  /\ \/ /\ pc' = "wait_card"
        /\ exc' = exc
     \/ \E e \in BlockingErrors : Raise(e)
  /\ UNCHANGED << query, sessionVars, bannerVars, clickVars, log, searchVars,
                  cardVars, extractVars, outVars >>

\* page.wait_for_selector("[data-testid='product-card']", timeout=20000)
WaitCardSelector ==
  /\ pc = "wait_card"
  /\ \/ /\ pc' = "wait_price"
        /\ exc' = exc
     \/ \E e \in BlockingErrors : Raise(e)
  /\ UNCHANGED << query, sessionVars, bannerVars, clickVars, log, searchVars,
                  cardVars, extractVars, outVars >>

\* page.wait_for_selector("[data-testid='product-price']", timeout=20000)
WaitPriceSelector ==
  /\ pc = "wait_price"
  /\ \/ /\ pc' = "fpc_wait"
        /\ exc' = exc
     \/ \E e \in BlockingErrors : Raise(e)
  /\ UNCHANGED << query, sessionVars, bannerVars, clickVars, log, searchVars,
                  cardVars, extractVars, outVars >>

\* -------------------------------------------------- product-card resolution
\* numbers of nodes a locator may match: none, one, the cap, more than the cap
NodeCounts == {0, 1, ScanCap, MaxNodes}

LimitUncapped(n) == n

\* limit = min(nodes.count(), 24)
Limit(n) == Min(n, ScanCap)

\* page.wait_for_selector("[data-testid='product-price']", timeout=15000);
\* `except Exception: pass` swallows a timeout. The scans start.
FpcWait ==
  /\ pc = "fpc_wait"
  /\ \/ TRUE
     \/ \E e \in BlockingErrors : IsException(e)
  /\ scan' = 0
  /\ limit' = 0
  /\ idx' = 0
  /\ probes' = 0
  /\ skippedPriced' = FALSE
  /\ pc' = "fpc_count"
  /\ UNCHANGED << query, sessionVars, bannerVars, clickVars, log, exc,
                  searchVars, card, extractVars, outVars >>

\* the head of a scan: scan 0 is the fast path over cards, scans 1..4 are the
\* selectors of the fallback loop. count() is called twice: once for the
\* emptiness test, once for the limit.
FpcCount ==
  /\ pc = "fpc_count"
  /\ scan \in 0..Len(selectors)
  /\ \/ \E e \in ProbeErrors :
          /\ Raise(e)
          /\ UNCHANGED << scan, limit, idx >>
     \/ /\ scan' = scan + 1
        /\ UNCHANGED << pc, exc, limit, idx >>
     \/ \E n \in NodeCounts :
          /\ limit' = Limit(n)
          /\ idx' = 0
          /\ pc' = "fpc_probe"
          /\ UNCHANGED << scan, exc >>
  /\ UNCHANGED << query, sessionVars, bannerVars, clickVars, log, searchVars,
                  probes, skippedPriced, card, extractVars, outVars >>

\* numbers of [data-testid='product-price'] elements within a candidate node
PriceCounts == {0, 1}

PriceFoundAlways(n) == TRUE

PriceFoundInverted(n) == n = 0

\* if price.count() > 0: return node
PriceFound(n) == n > 0

\* one iteration of a scan: node.locator("[data-testid='product-price']")
\* .count() > 0 on candidate idx
FpcProbe ==
  /\ pc = "fpc_probe"
  /\ idx < limit
  /\ probes' = probes + 1
  /\ \/ \E e \in ProbeErrors :
          /\ Raise(e)
          /\ UNCHANGED << idx, skippedPriced, card >>
     \/ \E n \in PriceCounts :
          IF PriceFound(n)
            THEN /\ card' = [resolved |-> TRUE, price |-> n > 0]
                 /\ pc' = "extract_start"
                 /\ UNCHANGED << idx, skippedPriced, exc >>
            ELSE /\ idx' = idx + 1
                 /\ skippedPriced' = (skippedPriced \/ n > 0)
                 /\ UNCHANGED << pc, exc, card >>
  /\ UNCHANGED << query, sessionVars, bannerVars, clickVars, log, searchVars,
                  scan, limit, extractVars, outVars >>

\* range(limit) is exhausted: on to the next scan
FpcScanEnd ==
  /\ pc = "fpc_probe"
  /\ idx >= limit
  /\ scan' = scan + 1
  /\ pc' = "fpc_count"
  /\ UNCHANGED << query, sessionVars, bannerVars, clickVars, log, exc,
                  searchVars, limit, idx, probes, skippedPriced, card,
                  extractVars, outVars >>

\* raise RuntimeError("Could not find a product card with a visible price")
FpcFail ==
  /\ pc = "fpc_count"
  /\ scan = Len(selectors) + 1
  /\ Raise(NoProductCard)
  /\ UNCHANGED << query, sessionVars, bannerVars, clickVars, log, searchVars,
                  cardVars, extractVars, outVars >>

\* ---------------------------------------------------------------- extraction
\* the containers _extract_title_and_price may be handed: with or without a
\* [data-testid='product-price'] element, with or without "Price in Bag" text
Containers ==
  [priceElem : BOOLEAN, marker : BOOLEAN, known : {TRUE}]

\* _first_product_card returned (its locals are gone) and
\* _extract_title_and_price(card) is entered
ExtractStart ==
  /\ pc = "extract_start"
  /\ cont' \in Containers
  /\ tc' = 1
  /\ title_text' = None
  /\ firstYield' = None
  /\ scan' = 0
  /\ limit' = 0
  /\ idx' = 0
  /\ probes' = 0
  /\ skippedPriced' = FALSE
  /\ pc' = "ex_title"
  /\ UNCHANGED << query, sessionVars, bannerVars, clickVars, log, exc,
                  searchVars, card, result, outVars >>

YieldsUnstripped(t) == t # <<>>

\* t = loc.first.inner_text().strip(); if t:
Yields(t) == Strip(t) # <<>>

\* one iteration of the title loop
ExtractTitle ==
  /\ pc = "ex_title"
  /\ tc \in TitleCandidates
  /\ \/ \E e \in ProbeErrors :
          /\ Raise(e)
          /\ UNCHANGED << tc, title_text, firstYield >>
     \/ /\ tc' = tc + 1
        /\ UNCHANGED << pc, exc, title_text, firstYield >>
     \/ \E e \in BlockingErrors :
          /\ IsException(e)
          /\ tc' = tc + 1
          /\ UNCHANGED << pc, exc, title_text, firstYield >>
     \/ \E t \in Texts :
          /\ firstYield' = IF firstYield = None /\ Strip(t) # <<>>
                             THEN t ELSE firstYield
          /\ IF Yields(t)
               THEN /\ title_text' = Strip(t)
                    /\ pc' = "ex_price"
                    /\ UNCHANGED << tc, exc >>
               ELSE /\ tc' = tc + 1
                    /\ UNCHANGED << pc, exc, title_text >>
  /\ UNCHANGED << query, sessionVars, bannerVars, clickVars, log, searchVars,
                  cardVars, cont, result, outVars >>

\* the title loop ran out of candidates
ExtractTitleEnd ==
  /\ pc = "ex_title"
  /\ tc = Len(title_candidates) + 1
  /\ pc' = "ex_price"
  /\ UNCHANGED << query, sessionVars, bannerVars, clickVars, log, exc,
                  searchVars, cardVars, extractVars, outVars >>

\* title_text or "(unknown title)"
TitleOr(t) == IF t = None \/ t = <<>> THEN UnknownTitle ELSE t

BagFallbackAlways(c) == TRUE

\* bag_price.count() > 0
BagFallback(c) == c.marker

\* the price block
ExtractPrice ==
  /\ pc = "ex_price"
  /\ \/ \E e \in ProbeErrors :
          /\ Raise(e)
          /\ UNCHANGED result
     \/ /\ ~cont.priceElem
        /\ IF BagFallback(cont)
             THEN /\ result' = [title |-> TitleOr(title_text),
                                price |-> PriceInBag]
                  /\ pc' = "format"
                  /\ exc' = exc
             ELSE /\ Raise(NoPrice)
                  /\ UNCHANGED result
     \/ /\ cont.priceElem
        /\ \/ \E e \in BlockingErrors :
                /\ Raise(e)
                /\ UNCHANGED result
           \/ \E t \in Texts :
                /\ result' = [title |-> TitleOr(title_text),
                              price |-> Strip(t)]
                /\ pc' = "format"
                /\ exc' = exc
  /\ UNCHANGED << query, sessionVars, bannerVars, clickVars, log, searchVars,
                  cardVars, cont, tc, title_text, firstYield, outVars >>

\* ------------------------------------------------------------- run outcome
\* the messages of run are the pieces of its f-strings, in order

\* f'Success! First result for "{query}" is "{title}" priced at {price}'
SuccessMsg(q, r) ==
  << "Success!", " First result for ", q, " is ", r.title, " priced at ",
     r.price >>

\* f"Timeout while interacting with Nike: {te}"
TimeoutMsg(e) == << "Timeout while interacting with Nike: ", e.msg >>

\* f"Run failed: {e}"
FailedMsg(e) == << "Run failed: ", e.msg >>

\* _extract_title_and_price returned (its locals are gone); msg is built,
\* printed and returned; the finally block follows
Format ==
  /\ pc = "format"
  /\ printed' = Append(printed, SuccessMsg(query, result))
  /\ ret' = SuccessMsg(query, result)
  /\ tc' = 0
  /\ title_text' = None
  /\ firstYield' = None
  /\ pc' = "finally_context"
  /\ UNCHANGED << query, sessionVars, bannerVars, clickVars, log, exc,
                  searchVars, cardVars, cont, result, caught, exitCode >>

\* the err the except clauses of run build: PWTimeout first, then Exception
HandlerMsg(e) == IF IsPWTimeout(e) THEN TimeoutMsg(e) ELSE FailedMsg(e)

AfterHandlerAgain == "goto"

\* an except clause of run ends in `return err`: the finally block follows
AfterHandler == "finally_context"

\* the except clauses of run. The frames the exception left are gone with
\* their locals.
Except ==
  /\ pc = "except"
  /\ IsException(exc)
  /\ strat' = 0
  /\ scan' = 0
  /\ limit' = 0
  /\ idx' = 0
  /\ probes' = 0
  /\ skippedPriced' = FALSE
  /\ tc' = 0
  /\ title_text' = None
  /\ firstYield' = None
  /\ caught' = exc
  /\ printed' = Append(printed, HandlerMsg(exc))
  /\ ret' = HandlerMsg(exc)
  /\ exc' = NoErr
  /\ pc' = AfterHandler
  /\ UNCHANGED << query, sessionVars, bannerVars, clickVars, log, search,
                  searchInput, card, cont, result, exitCode >>

\* finally: context.close(); an exception it raises replaces the return and
\* leaves the with block
FinallyContext ==
  /\ pc = "finally_context"
  /\ \/ /\ contextOpen' = FALSE
        /\ pc' = "finally_browser"
        /\ UNCHANGED << exc, ret >>
     \/ \E e \in BlockingErrors :
          /\ exc' = e
          /\ ret' = NoMsg
          /\ pc' = "with_exit"
          /\ UNCHANGED contextOpen
  /\ UNCHANGED << query, browserOpen, bannerVars, clickVars, log, searchVars,
                  cardVars, extractVars, printed, caught, exitCode >>

\* finally: browser.close()
FinallyBrowser ==
  /\ pc = "finally_browser"
  /\ \/ /\ browserOpen' = FALSE
        /\ pc' = "with_exit"
        /\ UNCHANGED << contextOpen, exc, ret >>
     \/ \E e \in BlockingErrors :
          /\ exc' = e
          /\ ret' = NoMsg
          /\ pc' = "with_exit"
          /\ UNCHANGED sessionVars
  /\ UNCHANGED << query, bannerVars, clickVars, log, searchVars,
                  cardVars, extractVars, printed, caught, exitCode >>

AfterStopLeaves(open) == open

\* what is left open of the session once the Playwright driver is stopped:
\* the driver closes every browser it launched, and a browser's contexts
\* with it
AfterStop(open) == FALSE

\* `with sync_playwright() as p:` is left, by the return or by an exception:
\* its __exit__ stops the driver. It does not swallow the exception.
WithExit ==
  /\ pc = "with_exit"
  /\ browserOpen' = AfterStop(browserOpen)
  /\ contextOpen' = AfterStop(contextOpen)
  /\ pc' = IF exc = NoErr THEN "returned" ELSE "crashed"
  /\ UNCHANGED << query, bannerVars, clickVars, log, exc, searchVars,
                  cardVars, extractVars, outVars >>

StartsWithAnything(m) == m # NoMsg

\* run(args.query).startswith("Success!")
StartsWithSuccess(m) == Len(m) > 0 /\ m[1] = "Success!"

\* sys.exit(0 if run(args.query).startswith("Success!") else 1)
Exit ==
  /\ pc = "returned"
  /\ exitCode' = IF StartsWithSuccess(ret) THEN 0 ELSE 1
  /\ pc' = "exited"
  /\ UNCHANGED << query, sessionVars, bannerVars, clickVars, log, exc,
                  searchVars, cardVars, extractVars, printed, ret, caught >>

\* an exception left run: the interpreter prints a traceback and exits 1
ExitCrashed ==
  /\ pc = "crashed"
  /\ exitCode' = 1
  /\ pc' = "exited"
  /\ UNCHANGED << query, sessionVars, bannerVars, clickVars, log, exc,
                  searchVars, cardVars, extractVars, printed, ret, caught >>

\* --------------------------------------------------------- specifications
Next ==
  \/ Launch
  \/ NewContext
  \/ NewPage
  \/ Goto
  \/ DismissProbe
  \/ SafeClickAttempt
  \/ RetryDecide
  \/ DismissAfterClick
  \/ DismissReturn
  \/ OpenSearchBtnProbe
  \/ OpenSearchAfterClick
  \/ BuildSearchLocators
  \/ StrategyStep
  \/ OpenSearchFail
  \/ Fill
  \/ Press
  \/ WaitLoadState
  \/ WaitCardSelector
  \/ WaitPriceSelector
  \/ FpcWait
  \/ FpcCount
  \/ FpcProbe
  \/ FpcScanEnd
  \/ FpcFail
  \/ ExtractStart
  \/ ExtractTitle
  \/ ExtractTitleEnd
  \/ ExtractPrice
  \/ Format
  \/ Except
  \/ FinallyContext
  \/ FinallyBrowser
  \/ WithExit
  \/ Exit
  \/ ExitCrashed

\* one run of the robot, from process start to process exit
Spec == Init /\ [][Next]_vars

\* ------------------------------------------ _dismiss_banners called twice
\* how often _dismiss_banners is called in succession on one page
MaxCalls == 2

\* a page is loaded and _dismiss_banners(page) is called on it
InitDismiss ==
  /\ pc = "dismiss_probe"
  /\ query \in Queries
  /\ browserOpen = TRUE
  /\ contextOpen = TRUE
  /\ present \in BannerPages
  /\ lbl = 1
  /\ dismissCalls = 0
  /\ caller = "none"
  /\ attempt = 0
  /\ fails = 0
  /\ logMark = 0
  /\ slept = <<>>
  /\ clickErr = NoErr
  /\ lastErr = NoErr
  /\ clickStatus = "none"
  /\ log = <<>>
  /\ exc = NoErr
  /\ search = NoSearch
  /\ strat = 0
  /\ searchInput = 0
  /\ scan = 0
  /\ limit = 0
  /\ idx = 0
  /\ probes = 0
  /\ skippedPriced = FALSE
  /\ card = NoCard
  /\ cont = NoCont
  /\ tc = 0
  /\ title_text = None
  /\ firstYield = None
  /\ result = NoResult
  /\ printed = <<>>
  /\ ret = NoMsg
  /\ caught = NoErr
  /\ exitCode = -1

\* _dismiss_banners returns and is called again on the same page
DismissAgain ==
  /\ pc = "dismiss_probe"
  /\ lbl = Len(candidates) + 1
  /\ dismissCalls + 1 < MaxCalls
  /\ dismissCalls' = dismissCalls + 1
  /\ lbl' = 1
  /\ UNCHANGED << pc, query, sessionVars, present, clickVars, log, exc,
                  searchVars, cardVars, extractVars, outVars >>

\* the last of the calls returns
DismissLast ==
  /\ pc = "dismiss_probe"
  /\ lbl = Len(candidates) + 1
  /\ dismissCalls + 1 = MaxCalls
  /\ dismissCalls' = dismissCalls + 1
  /\ pc' = "dismissed"
  /\ UNCHANGED << query, sessionVars, present, lbl, clickVars, log, exc,
                  searchVars, cardVars, extractVars, outVars >>

NextDismiss ==
  \/ DismissProbe
  \/ SafeClickAttempt
  \/ RetryDecide
  \/ DismissAfterClick
  \/ DismissAgain
  \/ DismissLast

\* _dismiss_banners called MaxCalls times in succession on one page
SpecDismissTwice == InitDismiss /\ [][NextDismiss]_vars

\* ------------------------------------------------------------------ claims
\* pc = "click_done": safe_click has just returned or raised, its caller has
\* not yet gone on.

\* C1: one call of safe_click makes at most 3 attempts; a call that returns
\* has made one attempt more than it had failures, so two failures followed
\* by a success return after exactly 3 attempts; a call that raises has made
\* exactly 3 attempts, all failed, and no 4th attempt is made.
C1_AtMostThreeAttempts ==
  /\ attempt <= 3
  /\ fails <= attempt
  /\ clickStatus = "ok" => attempt = fails + 1
  /\ (clickStatus = "ok" /\ fails = 2) => attempt = 3
  /\ clickStatus = "raised" => (attempt = 3 /\ fails = 3)

C1_Witness ==
  /\ pc = "click_done"
  /\ clickStatus = "ok"
  /\ fails = 2
  /\ attempt = 3

\* C2: an attempt of the retried click that fails with a Fatal error (an
\* error that is not a transient timing issue: here the non-timeout
\* Playwright Error) is not followed by a backoff delay or another attempt:
\* the call is deciding on it or has been left.
C2_FatalNotRetried ==
  clickErr.kind = "Error" => pc \in {"retry_decide", "click_done"}

\* C3 as stated: after 3 recoverable failures the error that leaves
\* safe_click is the error the underlying interaction raised, same kind and
\* value.
C3_OriginalErrorLeaves ==
  (pc = "click_done" /\ clickStatus = "raised") => exc = clickErr

\* C3 amended: after 3 failures the error that leaves safe_click is the
\* RecoverableError its 3rd attempt raised, as it is (no RetryError around
\* it); it carries the text of the error the interaction raised in that
\* attempt, not its kind.
C3_RecoverableErrorLeavesUnwrapped ==
  (pc = "click_done" /\ clickStatus = "raised") =>
    /\ attempt = 3
    /\ exc = lastErr
    /\ exc.kind = "RecoverableError"
    /\ exc.msg = clickErr.msg
    /\ clickErr \in BlockingErrors

C3_Witness ==
  /\ pc = "click_done"
  /\ clickStatus = "raised"
  /\ clickErr = PWTimeout
  /\ exc = RecoverableError(PWTimeout.msg)

\* C4: a call of safe_click that needed k retries has written exactly k
\* retry events to the log.
C4_RetryEventsLogged ==
  pc = "click_done" => Len(log) - logMark = attempt - 1

\* C5: a strategy matches the page when its probe produces a visible match.
\* When _open_search returns, some strategy matches the page and the handle
\* comes from the first matching strategy in list order, whatever the later
\* strategies would produce; it fails for want of a search input only when
\* no strategy matches.
C5_FirstMatchingStrategyWins ==
  /\ pc = "fill" =>
       /\ searchInput \in Strategies
       /\ search[searchInput] = "visible"
       /\ \A j \in 1..(searchInput - 1) : search[j] # "visible"
  /\ (pc = "except" /\ exc = NoSearchInput) =>
       \A k \in Strategies : search[k] # "visible"

C5_Witness ==
  /\ pc = "fill"
  /\ search[1] = "hidden"
  /\ searchInput = 2
  /\ search[3] = "visible"
  /\ search[4] = "visible"

\* C6 as stated: one call of _first_product_card, fast path and fallback
\* scans together, probes at most 24 candidate nodes.
C6_TotalProbesWithinCap == probes <= 24

\* C6 amended: when every scan ends without a match, _first_product_card fails
\* with its not-found RuntimeError; each scan (the fast path and each of the
\* 4 selectors) probes at most 24 candidate nodes, so one call probes at most
\* 5 * 24 = 120.
C6_EachScanWithinCap ==
  /\ idx <= 24
  /\ limit <= 24
  /\ probes <= 24 * Min(scan + 1, 5)
  /\ (pc = "except" /\ scan = 5) => exc = NoProductCard
  /\ (pc = "except" /\ exc = NoProductCard) => scan = 5

C6_Witness ==
  /\ pc = "except"
  /\ exc = NoProductCard
  /\ probes = 120

\* C7: nothing raised while a label is swept leaves _dismiss_banners: after a
\* probe or a click, failed or not, the sweep goes on with the next label,
\* and after the last label the run goes on to resolve the search input.
C7_DismissNeverAborts ==
  [][ /\ (pc = "click_done" /\ caller = "banner") =>
           (pc' = "dismiss_probe" /\ lbl' = lbl + 1 /\ exc' = NoErr)
      /\ (pc = "dismiss_probe" /\ lbl \in Labels) =>
           \/ (pc' = "dismiss_probe" /\ lbl' = lbl + 1 /\ exc' = NoErr)
           \/ (pc' = "click_attempt" /\ lbl' = lbl /\ exc' = NoErr)
      /\ (pc = "dismiss_probe" /\ lbl = Len(candidates) + 1) =>
           (pc' = "open_search_btn" /\ exc' = NoErr) ]_vars

C7_Witness ==
  /\ pc = "open_search_btn"
  /\ dismissCalls = 1
  /\ caller = "banner"
  /\ clickStatus = "raised"
  /\ attempt = 3

\* C8: while no button of the page matches a label of the vocabulary, a step
\* of _dismiss_banners, in the first call or the second, starts no click,
\* raises nothing and leaves the page as it is.
C8_NoBannersNoOp ==
  [][ (pc = "dismiss_probe" /\ present = {}) =>
        /\ pc' \in {"dismiss_probe", "dismissed"}
        /\ present' = {}
        /\ exc' = NoErr
        /\ UNCHANGED clickVars ]_vars

C8_Witness ==
  /\ pc = "dismissed"
  /\ dismissCalls = 2
  /\ present = {}
  /\ clickStatus = "none"
  /\ attempt = 0

\* C9: for a container without a price element, _extract_title_and_price
\* returns only when the "Price in Bag" marker is present, and then the
\* price is the fallback literal and the title the container's own; when the
\* marker is absent as well it raises its no-price error and returns nothing.
\* (The container's own title: the trimmed text of the first title candidate
\* that yielded, else the sentinel.)
C9_NoPriceElement ==
  /\ (pc = "format" /\ ~cont.priceElem) =>
       /\ cont.marker
       /\ result.price = PriceInBag
       /\ result.title =
            (IF firstYield = None THEN UnknownTitle ELSE Strip(firstYield))
  /\ (pc = "except" /\ exc = NoPrice) =>
       /\ ~cont.priceElem
       /\ ~cont.marker
       /\ result = NoResult

C9_Witness ==
  /\ pc = "format"
  /\ ~cont.priceElem
  /\ cont.marker
  /\ result.price = PriceInBag
  /\ firstYield = << " ", "a" >>
  /\ result.title = << "a" >>

\* C10: the title is the trimmed text of the first candidate, in order, that
\* yields non-empty trimmed text; when none does (no match, blank text or a
\* read that raises) the title is "(unknown title)" and the call still
\* returns or fails by the price alone.
C10_TitleNeverFatal ==
  /\ pc = "ex_price" =>
       title_text = (IF firstYield = None THEN None ELSE Strip(firstYield))
  /\ pc = "format" =>
       /\ result.title =
            (IF firstYield = None THEN UnknownTitle ELSE Strip(firstYield))
       /\ result.title # <<>>
       /\ (firstYield = None => result.title = UnknownTitle)
  /\ (pc = "ex_title" /\ tc > 1) => title_text = None

C10_Witness ==
  /\ pc = "format"
  /\ tc = 5
  /\ firstYield = None
  /\ result.title = UnknownTitle
  /\ cont.priceElem
  /\ result.price = << "a" >>

C12_OneMessagePrintedAndReturned ==
  pc = "exited" => (Len(printed) = 1 /\ ret = printed[1])

C14_ExitZeroIffSuccess ==
  pc = "exited" =>
    /\ exitCode \in {0, 1}
    /\ (exitCode = 0) <=>
         /\ caught = NoErr
         /\ result # NoResult
         /\ ret = SuccessMsg(query, result)
         /\ printed = << ret >>
    /\ (caught # NoErr => exitCode = 1)
    /\ (exc # NoErr => exitCode = 1)

C14_Witness ==
  /\ pc = "exited"
  /\ exitCode = 0
  /\ ret = SuccessMsg(query, [title |-> UnknownTitle, price |-> << "a" >>])

\* --------------------------------------------- the end-to-end search flow
\* One step of the run on the page of the search scenario, the browser
\* answering every call: no call raises (so no click is retried and no probe
\* of a present button is lost); the loaded page shows the "Accept All"
\* button; the role-based search strategy does not match (no node, or none
\* that gets visible) and the placeholder-based one does; the results page
\* has product cards, each with a price element, the page stays as it is up
\* to extraction and the text of the price element is not blank.
ScenarioStep ==
  /\ exc' \notin (BlockingErrors \cup ProbeErrors)
  /\ pc' # "retry_decide"
  /\ (pc = "dismiss_probe" /\ lbl \in present) => pc' = "click_attempt"
  /\ pc = "goto" => 2 \in present'
  /\ pc = "open_search_locators" =>
       (search'[1] \in {"absent", "hidden"} /\ search'[2] = "visible")
  /\ (pc = "fpc_count" /\ scan = 0) => (pc' = "fpc_probe" /\ limit' >= 1)
  /\ (pc = "fpc_probe" /\ idx < limit) => card'.price
  /\ pc = "extract_start" => cont'.priceElem
  /\ pc = "ex_price" => result'.price \notin {<<>>, None}

NextScenario == Next /\ ScenarioStep

\* the run on the scenario page; the process keeps taking its next step
SpecScenario == Init /\ [][NextScenario]_vars /\ WF_vars(NextScenario)

\* C15: on a page with an "Accept All" button where the role-based search
\* strategy does not match and the placeholder-based one does, run clicks
\* the button (it is gone before the search input is looked for), resolves
\* the search input through the placeholder-based strategy and ends in
\* Success: the message printed and returned carries the price read from
\* the card, and the process exits 0.
C15_SearchFlowSucceeds ==
  /\ [][(pc = "dismiss_probe" /\ lbl \in Labels /\
          candidates[lbl] = "Accept All")
          => (pc' = "click_attempt" /\ caller' = "banner")]_vars
  /\ [](pc \in {"open_search_btn", "strategy"} => 2 \notin present)
  /\ [](pc = "fill" => (searchInput = 2 /\
                        search_locators[searchInput] = "placeholder~search"))
  /\ <>( /\ pc = "exited"
         /\ exitCode = 0
         /\ searchInput = 2
         /\ result.price \notin {<<>>, None, PriceInBag}
         /\ printed = << SuccessMsg(query, result) >>
         /\ ret = printed[1] )

C15_Witness ==
  /\ pc = "exited"
  /\ exitCode = 0
  /\ searchInput = 2
  /\ dismissCalls = 1
  /\ result.price = << "a" >>
  /\ ret = SuccessMsg(query, result)

\* ------------------------------------------------------- the stages of run
\* the stage of run a position belongs to, in the order of the statements of
\* run: 0 session start-up, 1 Navigate, 2 DismissBanners,
\* 3 ResolveSearchInput, 4 Submit, 5 WaitForResults, 6 ResolveTargetCard,
\* 7 Extract, 8 Format, 9 the except clauses (Failure), 10 the finally block
\* and the exit of the with block, 11 run is left. safe_click belongs to the
\* stage of its caller c.
Stage(p, c) ==
  CASE p \in {"launch", "new_context", "new_page"} -> 0
    [] p = "goto" -> 1
    [] p = "dismiss_probe" -> 2
    [] p \in {"click_attempt", "retry_decide", "click_done"} ->
         (IF c = "banner" THEN 2 ELSE 3)
    [] p \in {"open_search_btn", "open_search_locators", "strategy"} -> 3
    [] p \in {"fill", "press"} -> 4
    [] p \in {"wait_load", "wait_card", "wait_price"} -> 5
    [] p \in {"fpc_wait", "fpc_count", "fpc_probe"} -> 6
    [] p \in {"extract_start", "ex_title", "ex_price"} -> 7
    [] p = "format" -> 8
    [] p = "except" -> 9
    [] p \in {"finally_context", "finally_browser", "with_exit"} -> 10
    [] OTHER -> 11

\* C16: run is a linear state machine. No step goes back to an earlier
\* stage; a stage among Navigate .. Format is entered only from the stage
\* just before it, with no error propagating and nothing printed yet, so it
\* is entered at most once and in order; an error that propagates out of a
\* stage leads straight to the except clauses, which print and return the
\* failure message and go on to the finally block, never back to a stage.
C16_LinearStages ==
  [][ /\ Stage(pc', caller') >= Stage(pc, caller)
      /\ (Stage(pc', caller') \in 1..8 /\
          Stage(pc', caller') # Stage(pc, caller)) =>
           /\ Stage(pc', caller') = Stage(pc, caller) + 1
           /\ exc = NoErr
           /\ exc' = NoErr
           /\ printed' = <<>>
      /\ pc' = "except" =>
           /\ Stage(pc, caller) \in 1..8
           /\ exc' # NoErr
           /\ printed' = <<>>
      /\ pc = "except" =>
           /\ pc' = "finally_context"
           /\ printed' = << HandlerMsg(exc) >>
           /\ ret' = HandlerMsg(exc)
           /\ ~StartsWithSuccess(ret')
    ]_vars

C16_Witness ==
  /\ pc = "finally_context"
  /\ caught = NoProductCard
  /\ searchInput = 3
  /\ dismissCalls = 1
  /\ printed = << FailedMsg(NoProductCard) >>

\* ------------------------------------------------------------- termination
\* the run with a browser whose every call returns or raises: the process
\* is sequential and always executes its next statement
SpecFair == Spec /\ WF_vars(Next)

\* C17: when every browser call returns or raises, run comes to an end and
\* the process exits. Every loop counter stays within its bound: 8 banner
\* labels, 3 click attempts, 4 search strategies, 24 nodes per scan over
\* the fast path and 4 selectors, 4 title candidates.
C17_RunTerminates ==
  /\ <>(pc = "exited")
  /\ [](/\ lbl \in 0..(Len(candidates) + 1)
        /\ attempt \in 0..MaxAttempts
        /\ strat \in 0..(Len(search_locators) + 1)
        /\ scan \in 0..(Len(selectors) + 1)
        /\ idx \in 0..ScanCap
        /\ limit \in 0..ScanCap
        /\ tc \in 0..(Len(title_candidates) + 1))

C17_Witness ==
  /\ pc = "exited"
  /\ exitCode = 1
  /\ caught = NoProductCard
  /\ attempt = MaxAttempts
  /\ fails = MaxAttempts

\* C18: _first_product_card returns a container only when its price probe
\* counted a price element, at an index below min(count, 24) of the fast
\* path or of one of the 4 selectors, and every container it probed and
\* passed by before had none: it returns the first priced container in scan
\* order. Containers without a price are skipped; the call fails only when
\* all scans are exhausted, and then it has passed by no priced container.
C18_FirstPricedCard ==
  /\ ~skippedPriced
  /\ pc = "extract_start" =>
       /\ card.resolved
       /\ card.price
       /\ scan \in 0..Len(selectors)
       /\ idx < limit
       /\ limit <= ScanCap
       /\ probes >= idx + 1
  /\ (pc = "except" /\ exc = NoProductCard) =>
       (~card.resolved /\ scan = Len(selectors) + 1)

C18_Witness ==
  /\ pc = "extract_start"
  /\ card.price
  /\ scan = 2
  /\ idx = 3
  /\ probes > ScanCap

\* C19: the price in a success message is never empty.
C19_PriceNeverEmpty ==
  /\ pc = "format" => result.price # <<>>
  /\ (printed # <<>> /\ StartsWithSuccess(printed[1])) =>
       printed[1][7] # <<>>

====
